---- MODULE Spec2Model ----
(***************************************************************************)
(* A model of the Universal Language Selector (jquery.uls): the Selector    *)
(* (src/src/index.js), the Filter (src/src/languagefilter.js), the Display  *)
(* (src/src/languagedisplay.js) and the helpers of src/src/utils.js.        *)
(*                                                                          *)
(* Strings are sequences of characters; a character is a one-element name   *)
(* ("e", "F", ".") or, outside ASCII, the name of its code unit ("U0D46").  *)
(* The empty sequence stands for '' and for an absent (undefined) string    *)
(* wherever the code only tests the value for truthiness.                   *)
(***************************************************************************)
EXTENDS Integers, Sequences, FiniteSets, TLC

\* ------------------------------------------------------------------ bounds
\* longest text the user types into the search input
MaxInputLen == 2
\* longest text in the search input when autofill is called on its own
MaxAutofillLen == 2
\* a call of append is taken while the buckets hold fewer codes than this
MaxQueued == 3
\* an input event is handled while the buckets hold fewer codes than this
MaxSearchQueued == 7
\* an input event is handled while fewer requests than this await a response
MaxInFlight == 2
MaxTimers == 3
MaxPerCode == 3
\* the entries of the quick list that buildQuicklist keeps
QuickListLimit == 16

VARIABLES
    value,          \* Filter: this.element.value, the text of the search input
    suggestion,     \* Filter: this.suggestion, [el |-> found, val |-> its text]
    autofillCall    \* the last call of Filter.autofill: its arguments and effect

VARIABLES
    screenWidth,    \* document.documentElement.clientWidth
    languagesCount, \* Object.keys(options.languages).length of the Selector
    optMenuWidth,   \* options.menuWidth: "undefined", "wide", "medium", "narrow"
    shown,          \* Selector: this.shown
    initialized,    \* Selector: this.initialized (the menu is in the document)
    shouldRecreate, \* Selector: this.shouldRecreate
    menuWidth,      \* Selector: this.menuWidth
    menuClasses,    \* the width classes on the menu element
    resizeTimer,    \* the debounced resize handler has a pending timer
    lcd,            \* the Display the Selector created: its columns option and
                    \* the width class it was created for
    lcdQueued,      \* codes the Display holds in its buckets, awaiting a render
    lcdRenderTimeout, \* the Display's render timer is pending
    lcdItems,       \* codes of the language items rendered in the Display
    lcdListening,   \* rendered items that carry the Display's click listener
    event,          \* the event or call handled last: [type, arg]
    calls,          \* host callbacks invoked by the last handler, in order
    threw,          \* the last handler ended with an uncaught exception
    mounts,         \* how many times the menu was inserted into the document
    filters,        \* the Filters listening on the search input: for each
                    \* the number of the Display it was given
    lcdGeneration   \* the number of the newest Display

VARIABLES
    lcdOptions,     \* Display: this.options (columns, groupByRegion, itemsPerColumn)
    regionLanguages, \* Display: this.regionLanguages, region -> queued codes
    renderTimeout,  \* Display: the render timer is pending
    groupByRegionOverride, \* Display: this.groupByRegionOverride
    sections,       \* Display: the region sections of the container,
                    \* region -> [hide, rows of columns of item codes]
    op              \* the call the Display handled last

VARIABLES
    selectedLanguage,   \* Filter: the first result of the last search, or "null"
    inputTimer,         \* Filter: the debounce timer of the input event is pending
    filterOp,           \* Filter: what its last handler did
    searchAPI,          \* Filter: options.searchAPI is configured
    inFlight,           \* Filter: the queries of the requests awaiting a response
    lastHandled         \* Filter: the last invocation of the result handler

VARIABLES
    viewOptions,        \* Display: options.noResultsTemplate and options.quickList
    cachedQuicklist,    \* Display: this.cachedQuicklist
    noResultsViews,     \* Display: the no-results views its container holds
    viewOp              \* Display: what the last call about views did

VARIABLES
    timer,              \* debounce: per concern, the id its closure holds (0: undefined)
    pendingTimers,      \* debounce: the timers set and neither cleared nor fired
    nextTimerId,        \* debounce: the id the next setTimeout returns
    concernState,       \* debounce: per concern, the state its handler reads
    debounceOp          \* debounce: the last trigger or execution

VARIABLES
    layoutInput,        \* renderRegion: its arguments and the Display's mode
    layoutResult        \* renderRegion: what the last call produced

debounceVars == <<timer, pendingTimers, nextTimerId, concernState, debounceOp>>
layoutVars == <<layoutInput, layoutResult>>
searchVars == <<selectedLanguage, inputTimer, filterOp, searchAPI, inFlight, lastHandled>>
viewVars == <<viewOptions, cachedQuicklist, noResultsViews, viewOp>>
displayVars ==
    <<lcdOptions, regionLanguages, renderTimeout, groupByRegionOverride, sections, op>>
filterVars == <<value, suggestion>>
autofillVars == <<autofillCall>>
selectorVars ==
    <<screenWidth, languagesCount, optMenuWidth, shown, initialized,
      shouldRecreate, menuWidth, menuClasses, resizeTimer, lcd, lcdQueued,
      lcdRenderTimeout, lcdItems, lcdListening, event, calls, threw, mounts,
      filters, lcdGeneration>>
nonSelectorVars ==
    <<filterVars, autofillVars, displayVars, searchVars, viewVars, debounceVars,
      layoutVars>>
vars ==
    <<filterVars, autofillVars, selectorVars, displayVars, searchVars, viewVars,
      debounceVars, layoutVars>>

\* ------------------------------------------------------- string helpers
\* String.prototype.toLowerCase on one character
LowerChar(c) ==
    CASE c = "A" -> "a" [] c = "D" -> "d" [] c = "E" -> "e" [] c = "F" -> "f"
      [] c = "G" -> "g" [] c = "L" -> "l" [] c = "M" -> "m" [] c = "T" -> "t"
      [] c = "Z" -> "z"
      [] OTHER -> c

\* String.prototype.toLowerCase
toLowerCase(s) == [i \in 1..Len(s) |-> LowerChar(s[i])]

\* String.prototype.substring(start, end): both arguments are clamped to
\* [0, length] and swapped when start > end; indices are 0-based
substring(s, start, end) ==
    LET clamp(n) == IF n < 0 THEN 0 ELSE IF n > Len(s) THEN Len(s) ELSE n
        a == clamp(start)
        b == clamp(end)
        lo == IF a <= b THEN a ELSE b
        hi == IF a <= b THEN b ELSE a
    IN  SubSeq(s, lo + 1, hi)

\* String.prototype.indexOf for a one-character needle: 0-based, -1 if absent.
\* A needle that is no character of any string (the text "undefined" that an
\* out-of-range index turns into) is not found.
indexOf(s, ch) ==
    IF \E i \in 1..Len(s) : s[i] = ch
    THEN (CHOOSE i \in 1..Len(s) : s[i] = ch /\ \A j \in 1..(i - 1) : s[j] # ch) - 1
    ELSE -1

\* s[n] of JavaScript (0-based); "undefined" when n is out of range
charAt(s, n) == IF n + 1 \in 1..Len(s) THEN s[n + 1] ELSE "undefined"

\* all strings over alphabet A of length at most n
RECURSIVE StringsUpTo(_, _)
StringsUpTo(A, n) ==
    IF n = 0 THEN {<<>>}
    ELSE LET shorter == StringsUpTo(A, n - 1)
         IN  shorter \cup {Append(s, c) : s \in {t \in shorter : Len(t) = n - 1}, c \in A}

\* ---------------------------------------------------------------- utils.js
\* the pre-base vowel signs, in the order of the source's string literal
prebases ==
    << "U0D46", "U0D47", "U0D48", "U0D4A", "U0D4B", "U0D4C",
       "U0BC6", "U0BC7", "U0BC8", "U0BCA", "U0BCB", "U0BCC",
       "U0B47", "U0B48", "U0B4B", "U0B4C",
       "U0ABF", "U0A3F", "U093F", "U09BF",
       "U09C7", "U09C8", "U09CB", "U09CC",
       "U0DD9", "U0DDA", "U0DDB", "U0DDC", "U0DDD", "U0DDE" >>

\* isVisualPrefix(prefix, string): prebases.indexOf(string[prefix.length]) <= 0
isVisualPrefix(prefix, string) ==
    indexOf(prebases, charAt(string, Len(prefix))) <= 0

\* ------------------------------------------------- the metadata service
\* (@wikimedia/language-data, an external collaborator: the tables below are
\* the data the model runs the code against)
KnownCodes == {"en", "fr", "frp", "te"}

\* languageData.isKnown
isKnown(code) == code \in KnownCodes

\* the characters of a language code
CodeChars(code) ==
    CASE code = "en" -> <<"e", "n">>
      [] code = "fr" -> <<"f", "r">>
      [] code = "frp" -> <<"f", "r", "p">>
      [] code = "te" -> <<"t", "e">>
      [] code = "xx" -> <<"x", "x">>
      [] OTHER -> <<>>

\* languageData.getAutonym: the autonym, or the code itself when unknown
getAutonym(code) ==
    CASE code = "en" -> <<"E", "n", "g", "l", "i", "s", "h">>
      [] code = "fr" -> <<"f", "r", "a", "n", "U00E7", "a", "i", "s">>
      [] code = "frp" -> <<"a", "r", "p", "e", "t", "a", "n">>
      [] code = "te" -> <<"U0C24", "U0C46", "U0C32", "U0C41", "U0C17", "U0C41">>
      [] OTHER -> CodeChars(code)

\* languageData.getScript: the ISO 15924 code, Zyyy when unknown
getScript(code) ==
    CASE code \in {"en", "fr", "frp"} -> <<"L", "a", "t", "n">>
      [] code = "te" -> <<"T", "e", "l", "u">>
      [] OTHER -> <<"Z", "y", "y", "y">>

\* -------------------------------------------------------------- the catalog
\* the keys of the catalog the host passes as options.languages, in order:
\* "xx" has a name but is unknown to the metadata service, "yy" is a key
\* whose value is undefined
HostCatalog == <<"en", "fr", "frp", "te", "xx", "yy">>

\* options.languages[code]: the display name, absent for a code outside the
\* catalog.  "te" carries its Malayalam name (U0D24 U0D46: THA + SIGN E).
languages(code) ==
    CASE code = "en" -> <<"E", "n", "g", "l", "i", "s", "h">>
      [] code = "fr" -> <<"F", "r", "e", "n", "c", "h">>
      [] code = "frp" -> <<"A", "r", "p", "i", "t", "a", "n">>
      [] code = "te" -> <<"U0D24", "U0D46", "U0D32", "U0D41", "U0D19", "U0D4D", "U0D15", "U0D4D">>
      [] code = "xx" -> <<"M", "y", "s", "t", "e", "r", "y">>
      [] OTHER -> <<>>

\* the loop of the ULS constructor over this.languages, which is the object
\* options.languages itself: a key is deleted when its value is undefined
constructorLanguages(catalog) == SelectSeq(catalog, LAMBDA code : languages(code) # <<>>)

\* Object.keys(options.languages) after the constructor: the catalog's codes
\* in catalog order
CatalogOrder == constructorLanguages(HostCatalog)

CatalogCodes == {CatalogOrder[i] : i \in 1..Len(CatalogOrder)}

\* ------------------------------------------------------- Filter.autofill
\* the autonym retry without its "give up" test
autonymSuggestionKept(userInput, autonym) ==
    userInput \o substring(autonym, Len(userInput), Len(autonym))

\* the autonym retry of autofill: the input extended by the rest of the
\* autonym, given up ('') unless that is the autonym itself
autonymSuggestion(userInput, autonym) ==
    LET second == userInput \o substring(autonym, Len(userInput), Len(autonym))
    IN  IF second # autonym THEN <<>> ELSE second

\* Filter.autofill(langCode, languageName) on a Filter whose suggestion box is
\* sugg and whose input holds val: the new text of the suggestion box and
\* whether the call assigned it
autofill(sugg, val, langCode, languageNameArg) ==
    IF ~sugg.el THEN [val |-> sugg.val, wrote |-> FALSE]
    ELSE IF val = <<>> THEN [val |-> <<>>, wrote |-> TRUE]
    ELSE
      LET languageName == IF languageNameArg # <<>> THEN languageNameArg
                          ELSE languages(langCode)
          userInput == val
          first == userInput \o substring(languageName, Len(userInput), Len(languageName))
          candidate ==
              IF toLowerCase(first) # toLowerCase(languageName)
              THEN autonymSuggestion(userInput, getAutonym(langCode))
              ELSE first
          final == IF ~isVisualPrefix(userInput, candidate) THEN <<>> ELSE candidate
      IN  IF languageName = <<>> THEN [val |-> sugg.val, wrote |-> FALSE]
          ELSE [val |-> final, wrote |-> TRUE]

\* ------------------------------------- values of the parts a run leaves out
\* no autofill call was recorded
NoAutofillCall ==
    [done |-> FALSE, input |-> <<>>, langCode |-> "undefined", label |-> <<>>,
     wrote |-> FALSE]

\* no event was handled yet
NoEvent == [type |-> "none", code |-> 0, target |-> "none", shownBefore |-> FALSE,
            handledBy |-> <<>>,
            cancelHid |-> FALSE]

\* the Selector's variables in a run that has no Selector
SelectorUnused ==
    /\ screenWidth = 0 /\ languagesCount = 0 /\ optMenuWidth = "undefined"
    /\ shown = FALSE /\ initialized = FALSE /\ shouldRecreate = FALSE
    /\ menuWidth = "narrow" /\ menuClasses = {} /\ resizeTimer = FALSE
    /\ lcd = [columns |-> 1, menuWidth |-> "narrow"]
    /\ lcdQueued = {} /\ lcdRenderTimeout = FALSE
    /\ lcdItems = {} /\ lcdListening = {}
    /\ event = NoEvent /\ calls = <<>> /\ threw = FALSE /\ mounts = 0
    /\ filters = <<>> /\ lcdGeneration = 0

\* no call was handled yet
NoOp ==
    [type |-> "none", code |-> "none", region |-> "none", ret |-> FALSE,
     scheduled |-> FALSE, threw |-> FALSE]

\* the Display's variables in a run that has no Display of its own
DisplayUnused ==
    /\ lcdOptions = [columns |-> 1, groupByRegion |-> "auto", itemsPerColumn |-> 8]
    /\ regionLanguages = <<>>
    /\ renderTimeout = FALSE
    /\ groupByRegionOverride = "null"
    /\ sections = <<>>
    /\ op = NoOp

\* the Filter's variables in a run that has no Filter
\* no handler of the Filter ran yet
NoFilterOp ==
    [type |-> "none", query |-> <<>>, results |-> <<>>, handled |-> FALSE,
     selected |-> <<>>, signal |-> <<>>, request |-> <<>>, stale |-> FALSE,
     threw |-> FALSE]

\* the result handler was not invoked yet
NoHandled == [done |-> FALSE, query |-> <<>>, results |-> <<>>]

\* no call about views was made yet
NoViewOp ==
    [type |-> "none", query |-> <<>>, called |-> <<>>, evaluated |-> FALSE,
     returned |-> [kind |-> "none", items |-> <<>>], threw |-> FALSE]

\* the concerns that are debounced: the input search (300 ms), the resize
\* handling (250 ms) and the render pass of append (50 ms)
Concerns == {"input", "resize", "render"}

\* no trigger was handled yet
NoDebounceOp ==
    [type |-> "none", concern |-> "none", saw |-> 0, id |-> 0, searched |-> FALSE]

DebounceUnused ==
    /\ timer = [c \in Concerns |-> 0]
    /\ pendingTimers = {}
    /\ nextTimerId = 1
    /\ concernState = [c \in Concerns |-> 0]
    /\ debounceOp = NoDebounceOp

\* renderRegion was not called yet
NoLayoutResult == [done |-> FALSE, threw |-> FALSE, rows |-> <<>>]

LayoutUnused ==
    /\ layoutInput = [langs |-> <<>>, itemsPerColumn |-> 8, columns |-> 4,
                      grouping |-> FALSE]
    /\ layoutResult = NoLayoutResult

\* the variables of the pure-function specifications are not in use
UtilUnused == DebounceUnused /\ LayoutUnused

ViewUnused ==
    /\ viewOptions = [noResultsTemplate |-> "default", quickList |-> <<>>,
                      supplier |-> FALSE]
    /\ cachedQuicklist = [kind |-> "array", items |-> <<>>]
    /\ noResultsViews = <<>>
    /\ viewOp = NoViewOp

SearchUnused ==
    /\ selectedLanguage = "null"
    /\ inputTimer = FALSE
    /\ filterOp = NoFilterOp
    /\ searchAPI = FALSE
    /\ inFlight = <<>>
    /\ lastHandled = NoHandled

FilterUnused ==
    /\ SearchUnused
    /\ value = <<>>
    /\ suggestion = [el |-> FALSE, val |-> <<>>]
    /\ autofillCall = NoAutofillCall

\* ------------------------------------------- specification: autofill alone
\* The Filter's autofill method applied to every input text, top result and
\* label, on a Filter with and without a suggestion box.
AutofillAlphabet == {"e", "E", "U0D24", "U0C24", "U0D28"}

AutofillInputs == StringsUpTo(AutofillAlphabet, MaxAutofillLen)

\* the labels a caller passes as languageName: none, and the Malayalam names
\* of Nepali (U0D28 U0D47: NA + SIGN EE) and of English
AutofillLabels ==
    { <<>>,
      <<"U0D28", "U0D47", "U0D2A", "U0D4D", "U0D2A", "U0D3E", "U0D33", "U0D3F">>,
      <<"E", "n", "g", "l", "i", "s", "h">> }

AutofillInit ==
    /\ SelectorUnused
    /\ ViewUnused
    /\ UtilUnused
    /\ DisplayUnused
    /\ SearchUnused
    /\ value \in AutofillInputs
    /\ suggestion \in [el : BOOLEAN, val : {<<>>}]
    /\ autofillCall = NoAutofillCall

\* the user edits the text of the search input
AutofillType(v) ==
    /\ v # value
    /\ value' = v
    /\ autofillCall' = NoAutofillCall
    /\ UNCHANGED <<suggestion, selectorVars, viewVars, debounceVars, layoutVars, displayVars, searchVars>>

\* autofill(langCode, languageName) is called
AutofillApply(langCode, label) ==
    LET r == autofill(suggestion, value, langCode, label)
    IN  /\ suggestion' = [suggestion EXCEPT !.val = r.val]
        /\ autofillCall' = [done |-> TRUE, input |-> value, langCode |-> langCode,
                            label |-> label, wrote |-> r.wrote]
        /\ UNCHANGED <<value, selectorVars, viewVars, debounceVars, layoutVars, displayVars, searchVars>>

AutofillNext ==
    \/ \E v \in AutofillInputs : AutofillType(v)
    \/ \E c \in CatalogCodes \cup {"undefined"}, l \in AutofillLabels : AutofillApply(c, l)

SpecAutofill == AutofillInit /\ [][AutofillNext]_vars

\* ----------------------------------------------------- claims on autofill
PrebaseSigns == {prebases[i] : i \in 1..Len(prebases)}

\* s begins with p, character by character
BeginsWith(s, p) ==
    /\ Len(p) <= Len(s)
    /\ \A i \in 1..Len(p) : s[i] = p[i]

\* s begins with p when case is ignored
BeginsWithIgnoringCase(s, p) ==
    /\ Len(p) <= Len(s)
    /\ \A i \in 1..Len(p) : LowerChar(s[i]) = LowerChar(p[i])

\* s and t are the same text when case is ignored
SameIgnoringCase(s, t) ==
    /\ Len(s) = Len(t)
    /\ \A i \in 1..Len(s) : LowerChar(s[i]) = LowerChar(t[i])

\* the label the last autofill call worked with
CallLabel ==
    IF autofillCall.label # <<>> THEN autofillCall.label
    ELSE languages(autofillCall.langCode)

\* the last autofill call assigned a non-empty suggestion
SuggestionProposed ==
    /\ autofillCall.done
    /\ autofillCall.wrote
    /\ suggestion.val # <<>>

C5_SuggestionExtendsInput ==
    (autofillCall.done /\ autofillCall.wrote) =>
        /\ suggestion.val # <<>> =>
              /\ BeginsWith(suggestion.val, autofillCall.input)
              /\ Len(suggestion.val) >= Len(autofillCall.input)
              /\ \/ SameIgnoringCase(suggestion.val, CallLabel)
                 \/ suggestion.val = getAutonym(autofillCall.langCode)
        /\ ( /\ ~BeginsWithIgnoringCase(CallLabel, autofillCall.input)
             /\ ~BeginsWith(getAutonym(autofillCall.langCode), autofillCall.input) )
              => suggestion.val = <<>>

\* C5 witness: autofill proposed the autonym of the top result, longer than
\* the input, after the label failed to extend the input
C5_Witness ==
    /\ SuggestionProposed
    /\ Len(suggestion.val) > Len(autofillCall.input)
    /\ suggestion.val = getAutonym(autofillCall.langCode)
    /\ ~SameIgnoringCase(suggestion.val, CallLabel)

\* ------------------------------------------------------ Selector (index.js)
\* the width class too wide by one pixel: the first threshold taken inclusive
getMenuWidthInclusive(opt, w, n) ==
    IF opt # "undefined" THEN opt
    ELSE IF w >= 900 /\ n >= 48 THEN "wide"
    ELSE IF w > 500 /\ n >= 24 THEN "medium"
    ELSE "narrow"

\* ULS.getMenuWidth, for options.menuWidth opt, viewport width w and a
\* catalog of n languages
getMenuWidth(opt, w, n) ==
    IF opt # "undefined" THEN opt
    ELSE IF w > 900 /\ n >= 48 THEN "wide"
    ELSE IF w > 500 /\ n >= 24 THEN "medium"
    ELSE "narrow"

\* columnsOptions of createLanguageFilter
columnsOptions(mw) ==
    CASE mw = "wide" -> 4
      [] mw = "medium" -> 2
      [] mw = "narrow" -> 1

\* the codes of the Selector's catalog, numbered in catalog order
SelectorCodes == 1..languagesCount

\* Display.listen, called by the Display's constructor: the click listener is
\* bound to the items that are in the container at that moment
lcdListen(itemsNow) == itemsNow

\* createLanguageFilter for width class mw: the new Display and what the new
\* Filter's first search (empty query) queues in it
createLanguageFilter(mw, n) ==
    [lcd |-> [columns |-> columnsOptions(mw), menuWidth |-> mw],
     lcdQueued |-> 1..n,
     lcdRenderTimeout |-> n > 0]

\* the Selector and its Display when a handler starts, with an empty
\* callback log
Sel ==
    [shown |-> shown, initialized |-> initialized,
     shouldRecreate |-> shouldRecreate, menuWidth |-> menuWidth,
     menuClasses |-> menuClasses, lcd |-> lcd, lcdQueued |-> lcdQueued,
     lcdRenderTimeout |-> lcdRenderTimeout, lcdItems |-> lcdItems,
     lcdListening |-> lcdListening, calls |-> <<>>, threw |-> FALSE,
     mounts |-> mounts, filters |-> filters, lcdGeneration |-> lcdGeneration]

\* a host callback is invoked; the log keeps this.shown at that moment
Callback(s, cb, code) ==
    [s EXCEPT !.calls = Append(@, [cb |-> cb, code |-> code, shown |-> s.shown])]

\* recreateLanguageFilter running to its end: createLanguageFilter makes a
\* new Display and a new Filter, whose constructor adds its listeners to
\* the search input; the listeners of the Filters before it stay
recreateLanguageFilterCompleting(s) ==
    [s EXCEPT !.lcd = createLanguageFilter(s.menuWidth, languagesCount).lcd,
              !.lcdQueued = createLanguageFilter(s.menuWidth, languagesCount).lcdQueued,
              !.lcdRenderTimeout =
                  createLanguageFilter(s.menuWidth, languagesCount).lcdRenderTimeout,
              !.lcdItems = {},
              !.lcdListening = {},
              !.lcdGeneration = @ + 1,
              !.filters = Append(@, s.lcdGeneration + 1),
              !.shouldRecreate = FALSE]

\* ULS.recreateLanguageFilter: after deleting dataset.lcd it calls
\* this.resultsView.empty(); resultsView is a DOM Element, which has no such
\* method, so the call throws a TypeError and lines 298-300 never run
recreateLanguageFilter(s) == [s EXCEPT !.threw = TRUE]

\* ULS.show with the menu put into the document on every call
showRemounting(s) ==
    Callback([s EXCEPT !.menuClasses = @ \cup {s.menuWidth},
                       !.mounts = @ + 1,
                       !.initialized = TRUE,
                       !.shown = TRUE],
             "onVisible", 0)

\* ULS.show (position and focus touch nothing the model keeps)
show(s) ==
    Callback([s EXCEPT !.menuClasses = @ \cup {s.menuWidth},
                       !.mounts = IF s.initialized THEN @ ELSE @ + 1,
                       !.initialized = TRUE,
                       !.shown = TRUE],
             "onVisible", 0)

\* ULS.hide
hide(s) ==
    LET h == [s EXCEPT !.shown = FALSE, !.menuClasses = {}]
        r == IF h.shouldRecreate THEN recreateLanguageFilter(h) ELSE h
    IN  IF r.threw THEN r ELSE Callback(r, "onCancel", 0)

\* ULS.select
select(s, code) ==
    LET h == hide(s)
    IN  IF h.threw THEN h ELSE Callback(h, "onSelect", code)

\* Node.contains for the trigger element (a node contains itself)
triggerContains(target) == target \in {"trigger", "triggerChild"}

\* ULS.cancel(e): target is e.target, "none" when cancel is called without
\* an event
cancel(s, target) ==
    IF target # "none" /\ ("trigger" # target \/ triggerContains(target))
    THEN s
    ELSE hide(s)

\* ULS.keypress
keypress(s, keyCode) ==
    IF ~s.shown THEN s
    ELSE IF keyCode = 27 THEN cancel(s, "none")
    ELSE s

\* ULS.click
click(s) == IF s.shown THEN hide(s) ELSE show(s)

\* ULS.resize
resize(s) ==
    LET mw == getMenuWidth(optMenuWidth, screenWidth, languagesCount)
    IN  IF s.menuWidth = mw THEN s
        ELSE LET r == [s EXCEPT !.menuWidth = mw, !.shouldRecreate = TRUE]
             IN  IF ~r.shown THEN recreateLanguageFilter(r) ELSE r

\* Display.renderRegions as the Selector's Display runs it: the rendered
\* items are removed; in one-column mode renderRegion then throws (appendChild
\* is given an array), so nothing is rendered and the buckets stay; otherwise
\* the queued codes become the new items and the buckets are emptied.  The
\* new items are new nodes: none carries a click listener.
lcdRenderRegions(s) ==
    IF s.lcdQueued = {} THEN [s EXCEPT !.lcdRenderTimeout = FALSE, !.lcdItems = {},
                                       !.lcdListening = {}]
    ELSE IF s.lcd.columns = 1
    THEN [s EXCEPT !.lcdRenderTimeout = FALSE, !.lcdItems = {}, !.lcdListening = {},
                   !.threw = TRUE]
    ELSE [s EXCEPT !.lcdRenderTimeout = FALSE, !.lcdItems = s.lcdQueued,
                   !.lcdListening = {}, !.lcdQueued = {}]

\* ------------------------------------------- specification: the Selector
ScreenWidths == {300, 500, 501, 900, 901}
CatalogSizes == {23, 24, 47, 48}
MenuWidthOptions == {"undefined", "wide", "narrow"}

\* the items the user clicks and the codes select is called with: the first
\* and the last code of the catalog
PickedCodes == {1, languagesCount}

\* the state a handler leaves
Leave(s) ==
    /\ shown' = s.shown
    /\ initialized' = s.initialized
    /\ shouldRecreate' = s.shouldRecreate
    /\ menuWidth' = s.menuWidth
    /\ menuClasses' = s.menuClasses
    /\ lcd' = s.lcd
    /\ lcdQueued' = s.lcdQueued
    /\ lcdRenderTimeout' = s.lcdRenderTimeout
    /\ lcdItems' = s.lcdItems
    /\ lcdListening' = s.lcdListening
    /\ calls' = s.calls
    /\ threw' = s.threw
    /\ mounts' = s.mounts
    /\ filters' = s.filters
    /\ lcdGeneration' = s.lcdGeneration

Event(type, code, target, cancelHid) ==
    [type |-> type, code |-> code, target |-> target, shownBefore |-> shown,
     handledBy |-> IF type \in {"search", "enter"} THEN filters ELSE <<>>,
     cancelHid |-> cancelHid]

\* the state after new ULS(element, options): render, listen (which creates
\* the Filter and the Display) and ready
SelectorInit ==
    /\ FilterUnused
    /\ ViewUnused
    /\ UtilUnused
    /\ DisplayUnused
    /\ screenWidth \in ScreenWidths
    /\ languagesCount \in CatalogSizes
    /\ optMenuWidth \in MenuWidthOptions
    /\ shown = FALSE
    /\ initialized = FALSE
    /\ shouldRecreate = FALSE
    /\ menuWidth = getMenuWidth(optMenuWidth, screenWidth, languagesCount)
    /\ menuClasses = {}
    /\ resizeTimer = FALSE
    /\ lcd = createLanguageFilter(menuWidth, languagesCount).lcd
    /\ lcdQueued = createLanguageFilter(menuWidth, languagesCount).lcdQueued
    /\ lcdRenderTimeout = createLanguageFilter(menuWidth, languagesCount).lcdRenderTimeout
    /\ lcdItems = {}
    /\ lcdListening = lcdListen(lcdItems)
    /\ event = [NoEvent EXCEPT !.type = "construct"]
    /\ calls = <<[cb |-> "onReady", code |-> 0, shown |-> FALSE]>>
    /\ threw = FALSE
    /\ mounts = 0
    /\ filters = <<1>>
    /\ lcdGeneration = 1

\* the host calls show()
Show ==
    /\ Leave(show(Sel))
    /\ event' = Event("show", 0, "none", FALSE)
    /\ UNCHANGED <<screenWidth, languagesCount, optMenuWidth, resizeTimer, nonSelectorVars>>

\* the host calls hide()
Hide ==
    /\ Leave(hide(Sel))
    /\ event' = Event("hide", 0, "none", FALSE)
    /\ UNCHANGED <<screenWidth, languagesCount, optMenuWidth, resizeTimer, nonSelectorVars>>

\* a click in the page outside the menu: the trigger's click listener runs
\* when the target is the trigger or inside it, then the listener on
\* document.body (cancel) runs
PageClick(target) ==
    LET a == IF triggerContains(target) THEN click(Sel) ELSE Sel
        b == cancel([a EXCEPT !.threw = FALSE], target)
    IN  /\ Leave([b EXCEPT !.threw = a.threw \/ b.threw])
        /\ event' = Event("click", 0, target, b.shown # a.shown)
        /\ UNCHANGED <<screenWidth, languagesCount, optMenuWidth, resizeTimer, nonSelectorVars>>

\* a click on a rendered language item of the shown menu: the item's own
\* listeners run, then the menu's listener stops the propagation
ItemClick(code) ==
    /\ shown
    /\ code \in lcdItems
    /\ Leave(IF code \in lcdListening THEN select(Sel, code) ELSE Sel)
    /\ event' = Event("itemclick", code, "item", FALSE)
    /\ UNCHANGED <<screenWidth, languagesCount, optMenuWidth, resizeTimer, nonSelectorVars>>

\* a keydown in the menu: Escape (27) or another key (65)
MenuKeydown(keyCode) ==
    /\ Leave(keypress(Sel, keyCode))
    /\ event' = Event("keydown", keyCode, "menu", FALSE)
    /\ UNCHANGED <<screenWidth, languagesCount, optMenuWidth, resizeTimer, nonSelectorVars>>

\* select(code) is called: by the Filter on Enter (its onSelect option), or
\* by the host
Select(code) ==
    /\ Leave(select(Sel, code))
    /\ event' = Event("select", code, "none", FALSE)
    /\ UNCHANGED <<screenWidth, languagesCount, optMenuWidth, resizeTimer, nonSelectorVars>>

\* the window is resized to width w: the debounced handler restarts its timer
WindowResize(w) ==
    /\ w # screenWidth
    /\ screenWidth' = w
    /\ resizeTimer' = TRUE
    /\ event' = Event("windowresize", w, "window", FALSE)
    /\ calls' = <<>>
    /\ threw' = FALSE
    /\ UNCHANGED <<languagesCount, optMenuWidth, shown, initialized, shouldRecreate,
                   menuWidth, menuClasses, lcd, lcdQueued, lcdRenderTimeout,
                   lcdItems, lcdListening, mounts, filters, lcdGeneration,
                   nonSelectorVars>>

\* the resize timer (250 ms) fires: resize()
ResizeTimerFire ==
    /\ resizeTimer
    /\ resizeTimer' = FALSE
    /\ Leave(resize(Sel))
    /\ event' = Event("resize", screenWidth, "window", FALSE)
    /\ UNCHANGED <<screenWidth, languagesCount, optMenuWidth, nonSelectorVars>>

\* the input listeners of the Filters fs run one after the other: each
\* Filter searches and appends the results to its own Display, which is the
\* one in the menu only if it is the newest
RECURSIVE searchBy(_, _, _)
searchBy(s, fs, results) ==
    IF fs = <<>> THEN s
    ELSE searchBy(IF Head(fs) = s.lcdGeneration
                  THEN [s EXCEPT !.lcdQueued = @ \cup results,
                                 !.lcdRenderTimeout = TRUE]
                  ELSE s,
                  Tail(fs), results)

\* the keydown listeners of the Filters fs run one after the other on Enter:
\* each Filter that has a language to select calls its onSelect option,
\* which is the Selector's select
RECURSIVE enterBy(_, _, _)
enterBy(s, fs, code) ==
    IF fs = <<>> THEN s
    ELSE enterBy(select(s, code), Tail(fs), code)

\* the input timer of the search input fired: every Filter listening on the
\* input ran a search and appended its results to its Display
FilterSearch(results) ==
    /\ results # {}
    /\ Leave(searchBy(Sel, filters, results))
    /\ event' = Event("search", Cardinality(results), "input", FALSE)
    /\ UNCHANGED <<screenWidth, languagesCount, optMenuWidth, resizeTimer, nonSelectorVars>>

\* Enter is pressed in the search input while a language is selected (code)
\* or none is (0)
SearchEnter(code) ==
    /\ Leave(IF code = 0 THEN Sel ELSE enterBy(Sel, filters, code))
    /\ event' = Event("enter", code, "input", FALSE)
    /\ UNCHANGED <<screenWidth, languagesCount, optMenuWidth, resizeTimer, nonSelectorVars>>

\* the Display's render timer (50 ms) fires: renderRegions()
RenderTimerFire ==
    /\ lcdRenderTimeout
    /\ Leave(lcdRenderRegions(Sel))
    /\ event' = Event("render", 0, "timer", FALSE)
    /\ UNCHANGED <<screenWidth, languagesCount, optMenuWidth, resizeTimer, nonSelectorVars>>

SelectorNext ==
    \/ Show
    \/ Hide
    \/ \E target \in {"trigger", "triggerChild", "outside"} : PageClick(target)
    \/ \E code \in PickedCodes : ItemClick(code)
    \/ \E keyCode \in {27, 65} : MenuKeydown(keyCode)
    \/ \E code \in PickedCodes : Select(code)
    \/ \E w \in ScreenWidths : WindowResize(w)
    \/ ResizeTimerFire
    \/ \E results \in {SelectorCodes, {1}} : FilterSearch(results)
    \/ \E code \in PickedCodes \cup {0} : SearchEnter(code)
    \/ RenderTimerFire

SpecSelector == SelectorInit /\ [][SelectorNext]_vars

\* --------------------------------------------------- claims on the Selector
\* the callbacks of the last handler that are calls of cb
CallsOf(cb) == SelectSeq(calls, LAMBDA c : c.cb = cb)

\* C6: the width class is the explicit option when one is set; otherwise
\* wide iff width > 900 and at least 48 languages, else medium iff width > 500
\* and at least 24, else narrow (so narrow at width <= 500 for every catalog);
\* the Display is created with 4, 2 or 1 columns for wide, medium, narrow
C6_MenuWidthClass ==
    /\ ~resizeTimer =>
         menuWidth =
           IF optMenuWidth # "undefined" THEN optMenuWidth
           ELSE IF screenWidth > 900 /\ languagesCount >= 48 THEN "wide"
           ELSE IF screenWidth > 500 /\ languagesCount >= 24 THEN "medium"
           ELSE "narrow"
    /\ (~resizeTimer /\ optMenuWidth = "undefined" /\ screenWidth <= 500) =>
         menuWidth = "narrow"
    /\ lcd.menuWidth = "wide" => lcd.columns = 4
    /\ lcd.menuWidth = "medium" => lcd.columns = 2
    /\ lcd.menuWidth = "narrow" => lcd.columns = 1

\* C6 witness: with no explicit option, a resize to a width above 900 with a
\* catalog of at least 48 languages made the class wide, the Display having
\* been created with 2 columns for the class medium
C6_Witness ==
    /\ event.type = "resize"
    /\ optMenuWidth = "undefined"
    /\ screenWidth > 900
    /\ languagesCount >= 48
    /\ menuWidth = "wide"
    /\ lcd = [columns |-> 2, menuWidth |-> "medium"]

\* C7: while the menu is shown, a click in the page whose target is neither
\* the trigger nor inside it hides the menu through the handler on the
\* document; a click on the trigger or inside it is not cancelled by that
\* handler
C7_OutsideClickCancels ==
    (event.type = "click" /\ event.shownBefore) =>
        IF event.target \in {"trigger", "triggerChild"}
        THEN ~event.cancelHid
        ELSE ~shown

\* C8: select(code) hides the menu, then invokes onSelect exactly once with
\* the code, the menu being hidden when onSelect runs and afterwards
C8_SelectHidesThenCallsOnSelect ==
    event.type = "select" =>
        /\ CallsOf("onSelect") = <<[cb |-> "onSelect", code |-> event.code, shown |-> FALSE]>>
        /\ ~shown

\* C9: onCancel is not invoked when the menu is closed by a selection
C9_NoCancelOnSelect ==
    event.type = "select" => CallsOf("onCancel") = <<>>

\* C10: a click on a rendered language item invokes the selection callback
\* with the item's code: the menu is hidden and onSelect receives the code
C10_ItemClickSelects ==
    event.type = "itemclick" =>
        /\ CallsOf("onSelect") = <<[cb |-> "onSelect", code |-> event.code, shown |-> FALSE]>>
        /\ ~shown

\* C16: a resize to the same width class recreates nothing; a resize to
\* another class while the menu is hidden recreates the Filter and Display
\* pair at once; while the menu is shown it only marks the pair, and the
\* recreation is done at the next hide
C16_RecreateOnResizeOrHide ==
    [][ LET mw == getMenuWidth(optMenuWidth, screenWidth, languagesCount)
        IN  /\ (event'.type = "resize" /\ mw = menuWidth) =>
                  /\ lcd' = lcd
                  /\ lcdQueued' = lcdQueued
                  /\ lcdItems' = lcdItems
                  /\ shouldRecreate' = shouldRecreate
            /\ (event'.type = "resize" /\ mw # menuWidth /\ ~shown) =>
                  /\ lcd' = createLanguageFilter(mw, languagesCount).lcd
                  /\ ~shouldRecreate'
                  /\ ~threw'
            /\ (event'.type = "resize" /\ mw # menuWidth /\ shown) =>
                  /\ lcd' = lcd
                  /\ shouldRecreate'
            /\ (shown /\ ~shown' /\ shouldRecreate) =>
                  /\ lcd' = createLanguageFilter(menuWidth, languagesCount).lcd
                  /\ ~shouldRecreate' ]_vars

\* C22: the menu element is put into the document exactly once, by the first
\* show: it is not in the document before any show, it is never put there a
\* second time, and whenever the menu is shown it is in the document
C22_MenuInsertedOnce ==
    /\ mounts <= 1
    /\ (mounts = 1) = initialized
    /\ shown => mounts = 1
    /\ event.type = "none" => mounts = 0

\* show was called on a menu that had been shown before
C22_Witness ==
    /\ event.type = "show"
    /\ event.shownBefore
    /\ shown
    /\ mounts = 1

\* C31: one Filter listens on the search input, and its Display is the
\* newest one: an input event runs one search, against the newest Display,
\* and an Enter key press calls onSelect at most once
C31_SingleLiveFilter ==
    /\ filters = <<lcdGeneration>>
    /\ event.type = "search" => event.handledBy = <<lcdGeneration>>
    /\ event.type = "enter" =>
          /\ event.handledBy = <<lcdGeneration>>
          /\ Len(CallsOf("onSelect")) <= 1

\* C31 witness: after a change of width class had asked for a recreation
\* and the recreation was attempted with the menu hidden, an input event ran
\* one search, whose results are queued in the Display of the menu
C31_Witness ==
    /\ event.type = "search"
    /\ event.handledBy = <<1>>
    /\ shouldRecreate
    /\ ~shown
    /\ lcd.columns # columnsOptions(menuWidth)
    /\ lcdRenderTimeout
    /\ lcdQueued # {}

\* C30: when the menu is hidden the pair is not marked for recreation and the
\* Display has the column count of the Selector's width class
C30_HiddenMenuIsCurrent ==
    ~shown =>
        /\ ~shouldRecreate
        /\ lcd.columns = columnsOptions(menuWidth)

\* ------------------------------------------- Display (languagedisplay.js)
\* options.showRegions after the constructor has added the region 'all'
ShowRegions == <<"WW", "AM", "EU", "ME", "AF", "AS", "PA", "all">>

RegionSet == {ShowRegions[i] : i \in 1..Len(ShowRegions)}

\* languageData.getRegions
getRegions(code) ==
    CASE code = "en" -> <<"EU", "AM">>
      [] code = "fr" -> <<"EU", "AF">>
      [] code = "frp" -> <<"EU">>
      [] code = "te" -> <<"AS">>
      [] OTHER -> <<>>

\* languageData.getScriptGroupOfLanguage ("Other" for what it does not know)
getScriptGroupOfLanguage(code) ==
    CASE code \in {"en", "fr", "frp"} -> "Latin"
      [] code = "te" -> "SouthAsian"
      [] OTHER -> "Other"

\* the place of a code's lower-cased autonym among the autonyms
\* (arpetan < english < français < xx < zz < Telugu letters)
AutonymRank(code) ==
    CASE code = "frp" -> 1
      [] code = "en" -> 2
      [] code = "fr" -> 3
      [] code = "xx" -> 4
      [] code = "te" -> 6
      [] OTHER -> 5

\* Array.prototype.sort with languageData.sortByAutonym
sortByAutonym(langs) ==
    SortSeq(langs, LAMBDA a, b : AutonymRank(a) < AutonymRank(b))

\* languageData.sortByScriptGroup: the codes of each script group together,
\* the groups by name, the order within a group kept
sortByScriptGroup(langs) ==
    SelectSeq(langs, LAMBDA c : getScriptGroupOfLanguage(c) = "Latin")
      \o SelectSeq(langs, LAMBDA c : getScriptGroupOfLanguage(c) = "Other")
      \o SelectSeq(langs, LAMBDA c : getScriptGroupOfLanguage(c) = "SouthAsian")

\* the codes of a sequence
Range(seq) == {seq[i] : i \in 1..Len(seq)}

\* Display.isGroupingByRegionEnabled; the groupByRegion option is "auto",
\* "true", "false" or "undefined"
isGroupingByRegionEnabled(override, opts) ==
    IF override # "null" THEN override = "true"
    ELSE IF opts.groupByRegion # "auto" THEN opts.groupByRegion = "true"
    ELSE opts.columns > 1

\* the Display when a call starts: nothing returned, scheduled or thrown yet
D ==
    [regionLanguages |-> regionLanguages, renderTimeout |-> renderTimeout,
     groupByRegionOverride |-> groupByRegionOverride, sections |-> sections,
     ret |-> FALSE, scheduled |-> FALSE, threw |-> FALSE]

\* the loop of append: regionLanguages[region].push(langCode) for each
\* region; a region without a bucket makes push throw a TypeError
RECURSIVE pushRegions(_, _, _)
pushRegions(d, regions, langCode) ==
    IF regions = <<>> THEN d
    ELSE IF Head(regions) \notin DOMAIN d.regionLanguages THEN [d EXCEPT !.threw = TRUE]
    ELSE pushRegions([d EXCEPT !.regionLanguages[Head(regions)] = Append(@, langCode)],
                     Tail(regions), langCode)

\* append without the test for a code that is already in the 'all' bucket
appendKnownNoDedupe(d, opts, langCode, regionCode) ==
    LET grouping == isGroupingByRegionEnabled(d.groupByRegionOverride, opts)
        regions == IF ~grouping THEN <<"all">>
                   ELSE IF regionCode # "none" THEN <<regionCode>>
                   ELSE getRegions(langCode)
        p == pushRegions(d, regions, langCode)
    IN  IF p.threw THEN p
        ELSE [p EXCEPT !.renderTimeout = TRUE, !.scheduled = TRUE, !.ret = TRUE]

\* Display.append after the isKnown test (regionCode "none": not given)
appendKnown(d, opts, langCode, regionCode) ==
    LET grouping == isGroupingByRegionEnabled(d.groupByRegionOverride, opts)
        regions == IF ~grouping THEN <<"all">>
                   ELSE IF regionCode # "none" THEN <<regionCode>>
                   ELSE getRegions(langCode)
    IN  IF ~grouping /\ langCode \in Range(d.regionLanguages["all"])
        THEN [d EXCEPT !.ret = TRUE]
        ELSE LET p == pushRegions(d, regions, langCode)
             IN  IF p.threw THEN p
                 ELSE [p EXCEPT !.renderTimeout = TRUE, !.scheduled = TRUE, !.ret = TRUE]

\* append without the validation of the code
appendUnvalidated(d, opts, langCode, regionCode) ==
    appendKnown(d, opts, langCode, regionCode)

\* Display.append(langCode, regionCode)
append(d, opts, langCode, regionCode) ==
    IF ~isKnown(langCode) THEN [d EXCEPT !.ret = FALSE]
    ELSE appendKnown(d, opts, langCode, regionCode)

\* the multi-column loop with the column break at a change of script made
\* in every grouping mode
RECURSIVE layoutFromAlwaysForcing(_, _, _, _, _, _)
layoutFromAlwaysForcing(langs, i, acc, itemsPerColumn, columnsPerRow, grouping) ==
    IF i > Len(langs) THEN acc
    ELSE
      LET nextScript == getScriptGroupOfLanguage(
                            IF i < Len(langs) THEN langs[i + 1] ELSE "undefined")
          lastItem == i = Len(langs)
          force == /\ i # 1
                   /\ acc.currentScript # nextScript
                   /\ Len(acc.items) > 1
          items == Append(acc.items, langs[i])
          closeColumn == \/ (itemsPerColumn # 0 /\ Len(items) >= itemsPerColumn)
                         \/ lastItem
                         \/ force
          columns == IF closeColumn THEN Append(acc.columns, items) ELSE acc.columns
          closeRow == closeColumn /\ (Len(columns) >= columnsPerRow \/ lastItem)
      IN  layoutFromAlwaysForcing(langs, i + 1,
                     [items |-> IF closeColumn THEN <<>> ELSE items,
                      columns |-> IF closeRow THEN <<>> ELSE columns,
                      rows |-> IF closeRow THEN Append(acc.rows, columns) ELSE acc.rows,
                      currentScript |-> nextScript],
                     itemsPerColumn, columnsPerRow, grouping)

\* the multi-column loop of renderRegion from item i on; acc holds items,
\* columns, rows and currentScript; itemsPerColumn 0 stands for undefined
\* (a comparison with undefined is false)
RECURSIVE layoutFrom(_, _, _, _, _, _)
layoutFrom(langs, i, acc, itemsPerColumn, columnsPerRow, grouping) ==
    IF i > Len(langs) THEN acc
    ELSE
      LET nextScript == getScriptGroupOfLanguage(
                            IF i < Len(langs) THEN langs[i + 1] ELSE "undefined")
          lastItem == i = Len(langs)
          force == /\ ~(i = 1 \/ ~grouping)
                   /\ acc.currentScript # nextScript
                   /\ Len(acc.items) > 1
          items == Append(acc.items, langs[i])
          closeColumn == \/ (itemsPerColumn # 0 /\ Len(items) >= itemsPerColumn)
                         \/ lastItem
                         \/ force
          columns == IF closeColumn THEN Append(acc.columns, items) ELSE acc.columns
          closeRow == closeColumn /\ (Len(columns) >= columnsPerRow \/ lastItem)
      IN  layoutFrom(langs, i + 1,
                     [items |-> IF closeColumn THEN <<>> ELSE items,
                      columns |-> IF closeRow THEN <<>> ELSE columns,
                      rows |-> IF closeRow THEN Append(acc.rows, columns) ELSE acc.rows,
                      currentScript |-> nextScript],
                     itemsPerColumn, columnsPerRow, grouping)

\* Display.renderRegion: the rows it appends to the region, the bucket as the
\* in-place sort leaves it, and whether it threw.  In one-column mode
\* column.appendChild(items) is given an array and throws a TypeError.
renderRegion(langs, opts, grouping) ==
    LET byAutonym == sortByAutonym(langs)
        sorted == sortByScriptGroup(byAutonym)
    IN  IF opts.columns = 1
        THEN [threw |-> TRUE, rows |-> <<>>, bucket |-> byAutonym]
        ELSE [threw |-> FALSE,
              rows |-> layoutFrom(sorted, 1,
                                  [items |-> <<>>, columns |-> <<>>, rows |-> <<>>,
                                   currentScript |-> "undefined"],
                                  opts.itemsPerColumn, opts.columns, grouping).rows,
              bucket |-> byAutonym]

\* the forEach of renderRegions from the k-th section on; an exception ends it
RECURSIVE renderFrom(_, _, _)
renderFrom(d, opts, k) ==
    IF k > Len(ShowRegions) \/ d.threw THEN d
    ELSE
      LET r == ShowRegions[k]
          langs == d.regionLanguages[r]
          cleared == [d EXCEPT !.sections[r].rows = <<>>]
          res == renderRegion(langs, opts,
                              isGroupingByRegionEnabled(d.groupByRegionOverride, opts))
      IN  IF langs = <<>>
          THEN renderFrom([cleared EXCEPT !.sections[r].hide = TRUE], opts, k + 1)
          ELSE IF res.threw
          THEN [cleared EXCEPT !.regionLanguages[r] = res.bucket, !.threw = TRUE]
          ELSE renderFrom([cleared EXCEPT !.sections[r] = [hide |-> FALSE, rows |-> res.rows],
                                          !.regionLanguages[r] = <<>>],
                          opts, k + 1)

\* Display.renderRegions, run by the render timer
renderRegions(d, opts) == renderFrom([d EXCEPT !.renderTimeout = FALSE], opts, 1)

\* -------------------------------------------- specification: the Display
\* A Display of its own, driven through its public methods.
DisplayColumns == {1, 2}
GroupByRegionOptions == {"auto", "true", "false", "undefined"}
ItemsPerColumnOptions == {2}
AppendCodes == {"en", "te", "xx"}
AppendRegions == {"none", "AS", "SP"}

\* the number of codes in the buckets of the first k regions
RECURSIVE Queued(_, _)
Queued(buckets, k) ==
    IF k = 0 THEN 0 ELSE Len(buckets[ShowRegions[k]]) + Queued(buckets, k - 1)

\* the state a call leaves in the Display
LeaveDisplay(d) ==
    /\ regionLanguages' = d.regionLanguages
    /\ renderTimeout' = d.renderTimeout
    /\ groupByRegionOverride' = d.groupByRegionOverride
    /\ sections' = d.sections

Op(type, code, region, d) ==
    [type |-> type, code |-> code, region |-> region, ret |-> d.ret,
     scheduled |-> d.scheduled, threw |-> d.threw]

\* the fields the constructor and render() set
DisplayConstructed ==
    /\ regionLanguages = [r \in RegionSet |-> <<>>]
    /\ renderTimeout = FALSE
    /\ groupByRegionOverride = "null"
    /\ sections = [r \in RegionSet |-> [hide |-> TRUE, rows |-> <<>>]]

DisplayInit ==
    /\ SelectorUnused
    /\ ViewUnused
    /\ UtilUnused
    /\ FilterUnused
    /\ lcdOptions \in [columns : DisplayColumns, groupByRegion : GroupByRegionOptions,
                       itemsPerColumn : ItemsPerColumnOptions]
    /\ DisplayConstructed
    /\ op = [NoOp EXCEPT !.type = "construct"]

\* append(langCode, regionCode) is called
DisplayAppend(langCode, regionCode) ==
    /\ Queued(regionLanguages, Len(ShowRegions)) < MaxQueued
    /\ LET d == append(D, lcdOptions, langCode, regionCode)
       IN  /\ LeaveDisplay(d)
           /\ op' = Op("append", langCode, regionCode, d)
    /\ UNCHANGED <<lcdOptions, filterVars, autofillVars, selectorVars, viewVars, debounceVars, layoutVars, searchVars>>

\* setGroupByRegionOverride(val) is called
DisplaySetOverride(val) ==
    /\ val # groupByRegionOverride
    /\ groupByRegionOverride' = val
    /\ op' = [NoOp EXCEPT !.type = "override"]
    /\ UNCHANGED <<lcdOptions, regionLanguages, renderTimeout, sections,
                   filterVars, autofillVars, selectorVars, viewVars, debounceVars, layoutVars, searchVars>>

\* the render timer (50 ms) fires
DisplayRenderTimerFire ==
    /\ renderTimeout
    /\ LET d == renderRegions(D, lcdOptions)
       IN  /\ LeaveDisplay(d)
           /\ op' = Op("render", "none", "none", d)
    /\ UNCHANGED <<lcdOptions, filterVars, autofillVars, selectorVars, viewVars, debounceVars, layoutVars, searchVars>>

DisplayNext ==
    \/ \E c \in AppendCodes, r \in AppendRegions : DisplayAppend(c, r)
    \/ \E val \in {"null", "false", "true"} : DisplaySetOverride(val)
    \/ DisplayRenderTimerFire

SpecDisplay == DisplayInit /\ [][DisplayNext]_vars

\* ---------------------------------------------------- claims on the Display
\* C1: append of a code the metadata service does not know returns false,
\* leaves every bucket ('all' too) as it was and schedules no render pass,
\* in every grouping mode, with and without a region
C1_UnknownCodeRejected ==
    [][ (op'.type = "append" /\ ~isKnown(op'.code) /\ op' # op) =>
          /\ op'.ret = FALSE
          /\ regionLanguages' = regionLanguages
          /\ renderTimeout' = renderTimeout
          /\ ~op'.scheduled
          /\ ~op'.threw ]_vars

\* C1 witness: an unknown code was appended with a region given, in grouping
\* mode, while codes were queued and a render pass was pending; it was
\* rejected
C1_Witness ==
    /\ op.type = "append"
    /\ ~isKnown(op.code)
    /\ op.region # "none"
    /\ op.ret = FALSE
    /\ isGroupingByRegionEnabled(groupByRegionOverride, lcdOptions)
    /\ renderTimeout
    /\ \E r \in RegionSet : regionLanguages[r] # <<>>

\* how often code c occurs in the list s
Occurrences(s, c) == Cardinality({i \in DOMAIN s : s[i] = c})

\* the lists a and b hold the same codes the same number of times
SameCodes(a, b) ==
    \A c \in Range(a) \cup Range(b) : Occurrences(a, c) = Occurrences(b, c)

\* the members of the lists of a list, in order
RECURSIVE Flatten(_)
Flatten(ss) == IF ss = <<>> THEN <<>> ELSE Head(ss) \o Flatten(Tail(ss))

\* the items of rendered rows read row by row and column by column
rowItems(rows) == Flatten(Flatten(rows))

\* C21: while grouping by region is disabled the 'all' bucket holds each code
\* at most once: an append of a known code that is already in it returns
\* true and leaves every bucket as it was, and an append changes no bucket
\* other than 'all'
C21_FlatAppendDeduplicates ==
    [][ /\ ~isGroupingByRegionEnabled(groupByRegionOverride', lcdOptions') =>
              \A c \in KnownCodes : Occurrences(regionLanguages'["all"], c) <= 1
        /\ ( /\ op'.type = "append"
             /\ isKnown(op'.code)
             /\ groupByRegionOverride' = groupByRegionOverride
             /\ ~isGroupingByRegionEnabled(groupByRegionOverride, lcdOptions) ) =>
              /\ op'.ret = TRUE
              /\ ~op'.threw
              /\ \A r \in RegionSet \ {"all"} : regionLanguages'[r] = regionLanguages[r]
              /\ IF op'.code \in Range(regionLanguages["all"])
                 THEN /\ regionLanguages' = regionLanguages
                      /\ ~op'.scheduled
                 ELSE regionLanguages'["all"] = Append(regionLanguages["all"], op'.code)
      ]_vars

\* C21 witness: with grouping disabled a known code was appended that was
\* already in the 'all' bucket; the call returned true and queued nothing
C21_Witness ==
    /\ op.type = "append"
    /\ isKnown(op.code)
    /\ op.ret = TRUE
    /\ ~op.scheduled
    /\ ~isGroupingByRegionEnabled(groupByRegionOverride, lcdOptions)
    /\ Occurrences(regionLanguages["all"], op.code) = 1

\* C24: the grouping mode is the override when one is set, else the boolean
\* groupByRegion option when one is configured, else (the option is 'auto',
\* or the Selector passed on an option it was not given) whether there is
\* more than one column
C24_GroupingMode ==
    isGroupingByRegionEnabled(groupByRegionOverride, lcdOptions) =
        IF groupByRegionOverride # "null" THEN groupByRegionOverride = "true"
        ELSE IF lcdOptions.groupByRegion \in {"true", "false"}
             THEN lcdOptions.groupByRegion = "true"
        ELSE lcdOptions.columns > 1

\* C26: a render pass leaves every bucket empty and no render pass pending;
\* it shows each section that had queued codes with exactly those codes and
\* leaves every other section empty and hidden
C26_RenderPassShowsQueued ==
    [][ (op'.type = "render" /\ renderTimeout) =>
          /\ ~renderTimeout'
          /\ \A r \in RegionSet :
                /\ regionLanguages'[r] = <<>>
                /\ IF regionLanguages[r] # <<>>
                   THEN /\ ~sections'[r].hide
                        /\ SameCodes(rowItems(sections'[r].rows), regionLanguages[r])
                   ELSE /\ sections'[r].hide
                        /\ sections'[r].rows = <<>>
      ]_vars

\* ---------------------------------------------- Filter (languagefilter.js)
\* String.prototype.trim: leading and trailing white space removed
RECURSIVE trimStart(_)
trimStart(s) == IF s # <<>> /\ Head(s) = " " THEN trimStart(Tail(s)) ELSE s

RECURSIVE trimEnd(_)
trimEnd(s) ==
    IF s # <<>> /\ s[Len(s)] = " " THEN trimEnd(SubSeq(s, 1, Len(s) - 1)) ELSE s

trim(s) == trimEnd(trimStart(s))

\* the characters escapeRegex puts a backslash before: /[-[\]{}()*+?.,\\^$|#\s]/
RegexSpecial ==
    {"-", "[", "]", "{", "}", "(", ")", "*", "+", "?", ".", ",", "\\", "^", "$",
     "|", "#", " "}

\* escapeRegex without the escaping
escapeRegexVerbatim(val) == val

\* escapeRegex(value)
RECURSIVE escapeRegex(_)
escapeRegex(val) ==
    IF val = <<>> THEN <<>>
    ELSE (IF Head(val) \in RegexSpecial THEN <<"\\", Head(val)>> ELSE <<Head(val)>>)
           \o escapeRegex(Tail(val))

\* the match of a pattern from its p-th character on at the i-th character of
\* str, with the flag 'i': a backslash makes the next character a literal, a
\* bare '.' stands for any character, every other character of the model's
\* alphabets stands for itself
RECURSIVE matchAt(_, _, _, _)
matchAt(pattern, p, str, i) ==
    IF p > Len(pattern) THEN TRUE
    ELSE IF pattern[p] = "\\"
    THEN /\ p + 1 <= Len(pattern)
         /\ i <= Len(str)
         /\ LowerChar(str[i]) = LowerChar(pattern[p + 1])
         /\ matchAt(pattern, p + 2, str, i + 1)
    ELSE IF pattern[p] = "."
    THEN i <= Len(str) /\ matchAt(pattern, p + 1, str, i + 1)
    ELSE /\ i <= Len(str)
         /\ LowerChar(str[i]) = LowerChar(pattern[p])
         /\ matchAt(pattern, p + 1, str, i + 1)

\* new RegExp('^' + source, 'i').test(str)
test(source, str) == matchAt(source, 1, str, 1)

\* LanguageFilter.filter(langCode, searchTerm)
filter(langCode, searchTerm) ==
    LET matcher == escapeRegex(searchTerm)
    IN  \/ test(matcher, languages(langCode))
        \/ test(matcher, getAutonym(langCode))
        \/ test(matcher, CodeChars(langCode))
        \/ test(matcher, getScript(langCode))

\* the Filter and its Display when a handler starts
F ==
    [value |-> value, suggestion |-> suggestion,
     selectedLanguage |-> selectedLanguage, d |-> D, op |-> NoFilterOp,
     searchAPI |-> searchAPI, inFlight |-> inFlight, lastHandled |-> lastHandled]

\* results.map(this.render): Display.append(langCode) for each result
RECURSIVE renderResults(_, _, _)
renderResults(d, opts, results) ==
    IF results = <<>> \/ d.threw THEN d
    ELSE renderResults(append(d, opts, Head(results), "none"), opts, Tail(results))

\* LanguageFilter.resultHandler(query, results): with no result it ends in
\* this.element.trigger(...), which a DOM element does not have, so the
\* noresults.uls signal is not emitted
resultHandler(f, opts, query, results) ==
    LET g == [f EXCEPT !.op.handled = TRUE, !.op.query = query, !.op.results = results,
                       !.lastHandled = [done |-> TRUE, query |-> query,
                                        results |-> results]]
        none == IF g.suggestion.el THEN [g EXCEPT !.suggestion.val = <<>>] ELSE g
        h == IF query # <<>>
             THEN [g EXCEPT !.selectedLanguage = results[1],
                            !.suggestion.val =
                                autofill(g.suggestion, g.value, results[1], <<>>).val]
             ELSE g
        d == renderResults(h.d, opts, results)
    IN  IF results = <<>> THEN [none EXCEPT !.op.threw = TRUE]
        ELSE IF d.threw THEN [h EXCEPT !.d = d, !.op.threw = TRUE]
        ELSE [h EXCEPT !.d = d,
                       !.op.signal = <<[name |-> "resultsfound", query |-> query,
                                        count |-> Len(results)]>>]

\* fetch(...) for a query: one more request in flight; each request carries
\* the note whether a newer query was issued after it
issue(requests, query) ==
    [k \in 1..Len(requests) |-> [requests[k] EXCEPT !.superseded = TRUE]]
      \o <<[query |-> query, superseded |-> FALSE]>>

\* search() without setGroupByRegionOverride(false) for a non-empty query
searchKeepingGrouping(f, opts) ==
    LET query == toLowerCase(trim(f.value))
    IN  IF query = <<>>
        THEN resultHandler([f EXCEPT !.d.groupByRegionOverride = "null"], opts,
                           query, CatalogOrder)
        ELSE IF f.searchAPI
        THEN [f EXCEPT !.inFlight = issue(@, query), !.op.threw = TRUE]
        ELSE resultHandler(f, opts, query,
                           SelectSeq(CatalogOrder, LAMBDA c : filter(c, query)))

\* LanguageFilter.search(): with a searchAPI the request is issued by
\* this.searchAPI(query) and then .done(...) is called on the Promise that
\* fetch(...).then(...) returned, which has no such method (TypeError)
search(f, opts) ==
    LET query == toLowerCase(trim(f.value))
        g == [f EXCEPT !.d.groupByRegionOverride = "false"]
    IN  IF query = <<>>
        THEN resultHandler([f EXCEPT !.d.groupByRegionOverride = "null"], opts,
                           query, CatalogOrder)
        ELSE IF g.searchAPI
        THEN [g EXCEPT !.inFlight = issue(@, query), !.op.threw = TRUE]
        ELSE resultHandler(g, opts, query,
                           SelectSeq(CatalogOrder, LAMBDA c : filter(c, query)))

\* the request at place k is taken out of the requests in flight
settled(f, k) ==
    [f EXCEPT !.inFlight = SubSeq(@, 1, k - 1) \o SubSeq(@, k + 1, Len(@)),
              !.op.request = f.inFlight[k].query,
              !.op.stale = f.inFlight[k].superseded]

\* a response handled the way search() asks for: the result handler is
\* given the query and the codes of the response
searchAPIHandled(f, opts, k, apiCodes) ==
    resultHandler(settled(f, k), opts, f.inFlight[k].query, apiCodes)

\* the callback of searchAPI on the response to the request at place k:
\* result is a Response, which has no languagesearch, so
\* result.languagesearch.each throws and the Promise is rejected
searchAPI_then(f, opts, k, apiCodes) ==
    [settled(f, k) EXCEPT !.op.threw = TRUE]

\* the request at place k fails: fetch rejects, the callback of searchAPI is
\* skipped, and no fail handler was attached
searchAPI_rejected(f, opts, k) ==
    [settled(f, k) EXCEPT !.op.threw = TRUE]

\* LanguageFilter.onInputChange without the reset of the selected language
onInputChangeKeeping(f, opts) ==
    IF f.value = <<>> THEN [f EXCEPT !.op.threw = TRUE]
    ELSE search(f, opts)

\* LanguageFilter.onInputChange: this.clear holds what siblings() returned,
\* undefined, so this.clear() throws a TypeError; lcd.firstChild is undefined
onInputChange(f, opts) ==
    LET g == [f EXCEPT !.selectedLanguage = "null"]
    IN  IF g.value = <<>> THEN [g EXCEPT !.op.threw = TRUE]
        ELSE search(g, opts)

\* the property names every object inherits from Object.prototype, as far as
\* the inputs of the model can spell them
ObjectPrototypeKeys == {"constructor"}

\* the text of a property name
KeyChars(key) ==
    IF key = "constructor"
    THEN <<"c", "o", "n", "s", "t", "r", "u", "c", "t", "o", "r">>
    ELSE CodeChars(key)

\* the property name a text spells, among those the catalog object answers to
KeyOf(text) ==
    IF \E k \in CatalogCodes \cup ObjectPrototypeKeys : KeyChars(k) = text
    THEN CHOOSE k \in CatalogCodes \cup ObjectPrototypeKeys : KeyChars(k) = text
    ELSE "undefined"

\* this.options.languages[query]: the name of a catalog code, the inherited
\* member (a function, truthy) for a name of Object.prototype, else undefined
languagesProperty(text) ==
    IF KeyOf(text) \in CatalogCodes THEN languages(KeyOf(text))
    ELSE IF KeyOf(text) \in ObjectPrototypeKeys THEN <<"function">>
    ELSE <<>>

\* LanguageFilter.keypress(e): Tab reads this.suggestion.value of the
\* undefined suggestion; Enter calls onSelect with the selected language, or
\* with the query when options.languages[query] is truthy
keypress_filter(f, keyCode) ==
    LET query == toLowerCase(trim(f.value))
    IN  IF keyCode = 9 THEN [f EXCEPT !.op.threw = TRUE]
        ELSE IF keyCode # 13 THEN f
        ELSE IF f.selectedLanguage # "null"
        THEN [f EXCEPT !.op.selected = Append(@, f.selectedLanguage)]
        ELSE IF languagesProperty(query) # <<>>
        THEN [f EXCEPT !.op.selected = Append(@, KeyOf(query))]
        ELSE f

\* --------------------------------------------- specification: the Filter
\* A Filter on a Display, with the catalog and no searchAPI, as
\* createLanguageFilter builds them (onSelect given).
FilterAlphabet == {"F", ".", " "}
FilterWords == {<<"l">>, <<"F", "r">>} \cup {KeyChars(k) : k \in ObjectPrototypeKeys}
FilterInputs == StringsUpTo(FilterAlphabet, MaxInputLen) \cup FilterWords
FilterDisplayOptions ==
    {[columns |-> 2, groupByRegion |-> "auto", itemsPerColumn |-> 8],
     [columns |-> 1, groupByRegion |-> "undefined", itemsPerColumn |-> 0]}
FilterKeys == {9, 13}

\* the state a handler leaves in the Filter and its Display
LeaveFilter(f, type) ==
    /\ LeaveDisplay(f.d)
    /\ suggestion' = f.suggestion
    /\ selectedLanguage' = f.selectedLanguage
    /\ inFlight' = f.inFlight
    /\ lastHandled' = f.lastHandled
    /\ filterOp' = [f.op EXCEPT !.type = type]

\* after new Display(...) and new LanguageFilter(...): the constructor ran
\* search() on the empty input
FilterConstructed(opts) ==
    LET f == search([value |-> <<>>, suggestion |-> [el |-> FALSE, val |-> <<>>],
                     selectedLanguage |-> "null",
                     d |-> [regionLanguages |-> [r \in RegionSet |-> <<>>],
                            renderTimeout |-> FALSE,
                            groupByRegionOverride |-> "null",
                            sections |-> [r \in RegionSet |->
                                            [hide |-> TRUE, rows |-> <<>>]],
                            ret |-> FALSE, scheduled |-> FALSE, threw |-> FALSE],
                     op |-> NoFilterOp, searchAPI |-> FALSE, inFlight |-> <<>>,
                     lastHandled |-> NoHandled], opts)
    IN  /\ value = <<>>
        /\ suggestion = f.suggestion
        /\ selectedLanguage = f.selectedLanguage
        /\ regionLanguages = f.d.regionLanguages
        /\ renderTimeout = f.d.renderTimeout
        /\ groupByRegionOverride = f.d.groupByRegionOverride
        /\ sections = f.d.sections
        /\ inFlight = f.inFlight
        /\ lastHandled = f.lastHandled
        /\ filterOp = [f.op EXCEPT !.type = "construct"]

FilterInit ==
    /\ SelectorUnused
    /\ ViewUnused
    /\ UtilUnused
    /\ searchAPI = FALSE
    /\ autofillCall = NoAutofillCall
    /\ lcdOptions \in FilterDisplayOptions
    /\ FilterConstructed(lcdOptions)
    /\ inputTimer = FALSE
    /\ op = NoOp

\* the user edits the text of the search input: the input event restarts the
\* debounce timer (300 ms)
FilterType(v) ==
    /\ v # value
    /\ value' = v
    /\ inputTimer' = TRUE
    /\ filterOp' = [NoFilterOp EXCEPT !.type = "type"]
    /\ UNCHANGED <<suggestion, selectedLanguage, searchAPI, inFlight, lastHandled,
                   displayVars, autofillVars, selectorVars, viewVars, debounceVars, layoutVars>>

\* the debounce timer fires: onInputChange
InputTimerFire ==
    /\ inputTimer
    /\ Queued(regionLanguages, Len(ShowRegions)) < MaxSearchQueued
    /\ Len(inFlight) < MaxInFlight
    /\ inputTimer' = FALSE
    /\ LeaveFilter(onInputChange(F, lcdOptions), "input")
    /\ UNCHANGED <<value, lcdOptions, op, searchAPI, autofillVars, selectorVars, viewVars, debounceVars, layoutVars>>

\* a click on the clear button: listen() found this.clear undefined and
\* registered no listener
ClearClick ==
    /\ filterOp' = [NoFilterOp EXCEPT !.type = "clear"]
    /\ UNCHANGED <<value, suggestion, selectedLanguage, inputTimer, searchAPI,
                   inFlight, lastHandled, displayVars, autofillVars, selectorVars,
                   viewVars, debounceVars, layoutVars>>

\* a keydown event on the search input
FilterKeydown(keyCode) ==
    /\ LeaveFilter(keypress_filter(F, keyCode), IF keyCode = 13 THEN "enter" ELSE "tab")
    /\ UNCHANGED <<value, inputTimer, lcdOptions, op, searchAPI, autofillVars,
                   selectorVars, viewVars, debounceVars, layoutVars>>

FilterNext ==
    \/ \E v \in FilterInputs : FilterType(v)
    \/ InputTimerFire
    \/ ClearClick
    \/ \E k \in FilterKeys : FilterKeydown(k)
    \/ DisplayRenderTimerFire

SpecFilter == FilterInit /\ [][FilterNext]_vars

\* ----------------------------------------------------- claims on the Filter
\* the starts-with test of the four texts of a code, case ignored
StartsWithMatch(code, query) ==
    \/ BeginsWithIgnoringCase(languages(code), query)
    \/ BeginsWithIgnoringCase(getAutonym(code), query)
    \/ BeginsWithIgnoringCase(CodeChars(code), query)
    \/ BeginsWithIgnoringCase(getScript(code), query)

\* C2: with no searchAPI, an input event whose trimmed, lower-cased text is
\* not empty hands the result handler that query and exactly the codes of the
\* catalog for which name, autonym, code or script begins with the query,
\* case ignored, in catalog order
C2_LocalSearchExact ==
    (filterOp.type = "input" /\ toLowerCase(trim(value)) # <<>>) =>
        /\ filterOp.handled
        /\ filterOp.query = toLowerCase(trim(value))
        /\ filterOp.results =
             SelectSeq(CatalogOrder, LAMBDA c : StartsWithMatch(c, filterOp.query))

\* C2 witness: the query "l" was searched and matched en, fr and frp by
\* their script alone, te and xx not
C2_Witness ==
    /\ filterOp.type = "input"
    /\ filterOp.handled
    /\ filterOp.query = <<"l">>
    /\ filterOp.results = <<"en", "fr", "frp">>

\* C3: after the query is cleared, by the clear button or by an input event
\* that leaves the input empty, the result handler was given the whole
\* catalog in catalog order and the override of the Display is null
C3_ClearRestoresCatalog ==
    (filterOp.type = "clear" \/ (filterOp.type = "input" /\ value = <<>>)) =>
        /\ filterOp.handled
        /\ filterOp.query = <<>>
        /\ filterOp.results = CatalogOrder
        /\ groupByRegionOverride = "null"

\* C11: an Enter key press with onSelect configured calls it once with the
\* selected language when one is set, else once with the trimmed, lower-cased
\* input when that is a key of the catalog, else not at all
C11_EnterFiresCallback ==
    filterOp.type = "enter" =>
        filterOp.selected =
            IF selectedLanguage # "null" THEN <<selectedLanguage>>
            ELSE IF \E c \in CatalogCodes : CodeChars(c) = toLowerCase(trim(value))
            THEN <<CHOOSE c \in CatalogCodes : CodeChars(c) = toLowerCase(trim(value))>>
            ELSE <<>>

\* the selected language is the first result of the last handled search,
\* which was for the text now in the input, and is null when the input is
\* empty or the last search found nothing
SelectionIsOfCurrentQuery ==
    /\ selectedLanguage # "null" =>
          /\ lastHandled.done
          /\ lastHandled.query = toLowerCase(trim(value))
          /\ lastHandled.results # <<>>
          /\ selectedLanguage = lastHandled.results[1]
    /\ (value = <<>> \/ (lastHandled.done /\ lastHandled.results = <<>>)) =>
          selectedLanguage = "null"

\* C12 as stated: in every reachable state the selected language is the
\* exact match of the last search for the query now in the input
C12_SelectionAlwaysCurrent == SelectionIsOfCurrentQuery

\* C12 amended: the same, in the states where no input event is waiting in
\* the debounce window
C12_SelectionCurrentWhenSettled == ~inputTimer => SelectionIsOfCurrentQuery

\* C12 witness: the search for "f" was handled, no input event is waiting
\* and the selected language is its first result, fr
C12_Witness ==
    /\ ~inputTimer
    /\ lastHandled.query = <<"f">>
    /\ selectedLanguage = "fr"
    /\ filterOp.type = "input"

\* C15: every invocation of the result handler emits exactly one signal:
\* noresults with the query when there is no result, and then nothing is
\* appended; resultsfound with the query and the number of results when
\* there are results, and then every known result is queued in the Display
C15_OneSignalPerHandling ==
    filterOp.handled =>
        /\ Len(filterOp.signal) = 1
        /\ filterOp.signal[1].name =
             (IF filterOp.results = <<>> THEN "noresults" ELSE "resultsfound")
        /\ filterOp.signal[1].query = filterOp.query
        /\ filterOp.signal[1].count = Len(filterOp.results)
        /\ ~filterOp.threw

\* ------------------------- specification: the Filter with a searchAPI
\* The Filter of SpecFilter with options.searchAPI set: requests are issued
\* by fetch and their responses arrive, or they fail, in any order.
RemoteResults == {<<>>, <<"te">>, <<"fr", "en">>}
RemoteInputs == {<<>>, <<"F">>, <<"l">>, <<" ">>}

RemoteInit ==
    /\ SelectorUnused
    /\ ViewUnused
    /\ UtilUnused
    /\ searchAPI = TRUE
    /\ autofillCall = NoAutofillCall
    /\ lcdOptions \in FilterDisplayOptions
    /\ FilterConstructed(lcdOptions)
    /\ inputTimer = FALSE
    /\ op = NoOp

\* the response to the request at place k arrives with the codes apiCodes
ResponseArrives(k, apiCodes) ==
    /\ k \in 1..Len(inFlight)
    /\ LeaveFilter(searchAPI_then(F, lcdOptions, k, apiCodes), "response")
    /\ UNCHANGED <<value, inputTimer, lcdOptions, op, searchAPI, autofillVars,
                   selectorVars, viewVars, debounceVars, layoutVars>>

\* the request at place k fails
RequestFails(k) ==
    /\ k \in 1..Len(inFlight)
    /\ LeaveFilter(searchAPI_rejected(F, lcdOptions, k), "failure")
    /\ UNCHANGED <<value, inputTimer, lcdOptions, op, searchAPI, autofillVars,
                   selectorVars, viewVars, debounceVars, layoutVars>>

RemoteNext ==
    \/ \E v \in RemoteInputs : FilterType(v)
    \/ InputTimerFire
    \/ ClearClick
    \/ \E k \in FilterKeys : FilterKeydown(k)
    \/ DisplayRenderTimerFire
    \/ \E k \in 1..MaxInFlight, apiCodes \in RemoteResults : ResponseArrives(k, apiCodes)
    \/ \E k \in 1..MaxInFlight : RequestFails(k)

SpecRemote == RemoteInit /\ [][RemoteNext]_vars

\* ------------------------------------------- claims on the remote search
\* C13: with a searchAPI, the response to a query that arrives after a newer
\* query was issued changes neither the selected language nor the
\* suggestion, queues nothing in the Display and emits no signal
C13_LateResponseDiscarded ==
    [][ (filterOp'.type = "response" /\ filterOp'.stale /\ filterOp' # filterOp) =>
          /\ selectedLanguage' = selectedLanguage
          /\ suggestion' = suggestion
          /\ regionLanguages' = regionLanguages
          /\ renderTimeout' = renderTimeout
          /\ lastHandled' = lastHandled
          /\ filterOp'.signal = <<>> ]_vars

\* C13 witness: the response to "f" arrived after the query "l" was issued
C13_Witness ==
    /\ filterOp.type = "response"
    /\ filterOp.stale
    /\ filterOp.request = <<"f">>
    /\ \E k \in 1..Len(inFlight) : inFlight[k].query = <<"l">>

\* C14: with a searchAPI, the response to an issued query invokes the result
\* handler once with that query, and a failed request invokes it once with
\* the query it was issued for and the local matches of that query
C14_OneHandlingPerQuery ==
    filterOp.type \in {"response", "failure"} =>
        /\ filterOp.handled
        /\ filterOp.query = filterOp.request
        /\ filterOp.type = "failure" =>
             filterOp.results =
                 SelectSeq(CatalogOrder, LAMBDA c : StartsWithMatch(c, filterOp.request))

\* C23: the codes the result handler appends for a non-empty query, be it
\* run by the input timer or by a response or failure of the remote search,
\* all go to the bucket 'all', and no region bucket changes
C23_QueryResultsFlat ==
    [][ ( /\ \/ inputTimer /\ ~inputTimer'
             \/ filterOp'.type \in {"response", "failure"} /\ inFlight' # inFlight
          /\ filterOp'.handled
          /\ filterOp'.query # <<>> ) =>
          /\ \A r \in RegionSet \ {"all"} : regionLanguages'[r] = regionLanguages[r]
          /\ \A c \in Range(filterOp'.results) :
                isKnown(c) => c \in Range(regionLanguages'["all"])
      ]_vars

\* C23 witness: in a Display that groups by region when left alone, with the
\* codes of the empty query still queued by region, the query "f" was
\* handled and its match "fr" went to 'all'
C23_Witness ==
    /\ filterOp.type = "input"
    /\ filterOp.handled
    /\ filterOp.query = <<"f">>
    /\ lcdOptions.columns > 1
    /\ lcdOptions.groupByRegion = "auto"
    /\ "fr" \in Range(regionLanguages["all"])
    /\ \E r \in RegionSet \ {"all"} : regionLanguages[r] # <<>>

\* C17: every key of the catalog the Selector passes to the Filter and the
\* Display is known to the metadata service, so no unknown code is handed
\* to the result handler
C17_CatalogKeysKnown ==
    /\ \A c \in CatalogCodes : isKnown(c)
    /\ lastHandled.done => \A c \in Range(lastHandled.results) : isKnown(c)

\* ----------------------- Display: quick list and no-results view
\* the Display's view state when a call starts
V ==
    [options |-> viewOptions, cachedQuicklist |-> cachedQuicklist,
     noResultsViews |-> noResultsViews, op |-> NoViewOp]

\* Array.prototype.slice(0, n)
slice(seq, n) == SubSeq(seq, 1, IF Len(seq) < n THEN Len(seq) ELSE n)

\* Display.buildQuicklist: this.cachedQuicklist is what it returns while it
\* is not null (the constructor sets it to []); building the section ends in
\* classList.add('uls-lcd-region-section uls-lcd-quicklist'), a token with a
\* blank, which throws
buildQuicklist(v) ==
    LET evaluated == [v EXCEPT !.options.supplier = FALSE,
                               !.op.evaluated = v.options.supplier]
    IN  IF v.cachedQuicklist.kind # "null"
        THEN [v EXCEPT !.op.returned = v.cachedQuicklist]
        ELSE IF evaluated.options.quickList = <<>>
        THEN [evaluated EXCEPT !.op.returned = evaluated.cachedQuicklist]
        ELSE [evaluated EXCEPT !.op.threw = TRUE]

\* the section buildQuicklist is meant to build of the configured entries
quickListSection(entries) ==
    [kind |-> "section", items |-> sortByAutonym(slice(entries, QuickListLimit))]

\* options.noResultsTemplate.call(this, query) for the Display's default
\* template: this.buildQuicklist().clone() is called on an array or on an
\* Element, neither of which has clone
defaultNoResultsTemplate(v) ==
    LET b == buildQuicklist(v) IN [b EXCEPT !.op.threw = TRUE]

\* Display.noResults(event, data): the old view is looked up with
\* querySelector, which gives null when the container holds none, and
\* null.remove() throws; the new view is added by
\* $noResults.classList.add(...).i18n(), and add returns undefined
noResults(v, query) ==
    LET template == v.options.noResultsTemplate
        removed == [v EXCEPT !.noResultsViews = Tail(@), !.op.query = query]
        called == [removed EXCEPT !.op.called = Append(@, query)]
    IN  IF v.noResultsViews = <<>> THEN [v EXCEPT !.op.query = query, !.op.threw = TRUE]
        ELSE IF template = "default" THEN defaultNoResultsTemplate(removed)
        ELSE IF template = "function" THEN [called EXCEPT !.op.threw = TRUE]
        ELSE [removed EXCEPT !.op.threw = TRUE]

\* ----------------------------- specification: the views of the Display
\* A Display with its options for the quick list and the no-results view;
\* "undefined" is the noResultsTemplate the ULS passes when its host gave
\* none, "other" a value that is neither a function nor a view.
NoResultsTemplates == {"default", "undefined", "function", "view", "other"}
LongQuickList == [i \in 1..(QuickListLimit + 1) |-> IF i % 2 = 1 THEN "fr" ELSE "en"]
QuickLists == {<<>>, <<"te", "fr", "en">>, LongQuickList}
ViewQueries == {<<"x">>, <<".">>, <<"x", "y">>}

LeaveView(v, type) ==
    /\ viewOptions' = v.options
    /\ cachedQuicklist' = v.cachedQuicklist
    /\ noResultsViews' = v.noResultsViews
    /\ viewOp' = [v.op EXCEPT !.type = type]

\* after new Display(...): cachedQuicklist is [], and render() has called
\* buildQuicklist once
ViewInit ==
    /\ SelectorUnused
    /\ FilterUnused
    /\ UtilUnused
    /\ lcdOptions = [columns |-> 2, groupByRegion |-> "auto", itemsPerColumn |-> 8]
    /\ DisplayConstructed
    /\ op = [NoOp EXCEPT !.type = "construct"]
    /\ viewOptions \in [noResultsTemplate : NoResultsTemplates, quickList : QuickLists,
                        supplier : BOOLEAN]
    /\ cachedQuicklist = [kind |-> "array", items |-> <<>>]
    /\ noResultsViews = <<>>
    /\ viewOp = [NoViewOp EXCEPT !.type = "construct",
                                 !.returned = [kind |-> "array", items |-> <<>>]]

\* the noresults.uls listener, or the host, calls noResults with a query
NoResults(query) ==
    /\ LeaveView(noResults(V, query), "noResults")
    /\ UNCHANGED <<filterVars, autofillVars, selectorVars, displayVars, searchVars,
                   debounceVars, layoutVars>>

\* buildQuicklist() is called
BuildQuicklist ==
    /\ LeaveView(buildQuicklist(V), "buildQuicklist")
    /\ UNCHANGED <<filterVars, autofillVars, selectorVars, displayVars, searchVars,
                   debounceVars, layoutVars>>

ViewNext ==
    \/ \E q \in ViewQueries : NoResults(q)
    \/ BuildQuicklist

SpecView == ViewInit /\ [][ViewNext]_vars

\* ------------------------------------------ claims on the Display's views
\* C18: with no custom no-results renderer, the Display's default or the
\* undefined one the ULS passes on, a no-results signal renders the default
\* view without an error, and the Display then holds exactly one such view
C18_DefaultNoResultsView ==
    (viewOp.type = "noResults" /\ viewOptions.noResultsTemplate \in {"default", "undefined"}) =>
        /\ ~viewOp.threw
        /\ noResultsViews = <<"default">>

\* C19: a no-results signal fails with an error and renders nothing when the
\* host's renderer is neither a function nor a view; a function is called
\* with the query of the signal, and a view is rendered
C19_CustomNoResultsRenderer ==
    viewOp.type = "noResults" =>
        /\ viewOptions.noResultsTemplate = "other" =>
              viewOp.threw /\ noResultsViews = <<>>
        /\ viewOptions.noResultsTemplate = "function" =>
              ~viewOp.threw /\ viewOp.called = <<viewOp.query>>
        /\ viewOptions.noResultsTemplate = "view" =>
              ~viewOp.threw /\ noResultsViews = <<"view">>

\* C20: with a quick list configured, as an array or a supplier, what
\* buildQuicklist returns, in the constructor and later, is the cached
\* section of the first 16 entries at most, sorted by autonym, and the
\* supplier is not evaluated again
C20_QuicklistBuiltOnceAndCached ==
    (viewOptions.quickList # <<>> /\ viewOp.type \in {"construct", "buildQuicklist"}) =>
        /\ viewOp.returned = quickListSection(viewOptions.quickList)
        /\ cachedQuicklist = viewOp.returned
        /\ ~viewOptions.supplier
        /\ viewOp.type = "buildQuicklist" => ~viewOp.evaluated

\* ------------------------------------------------ debounce (utils.js)
\* The timers of the three debounced concerns.  The input and the resize
\* handler are wrapped by debounce(); append keeps its timer in
\* this.renderTimeout and restarts it the same way.
\* the timers of the page when a call starts
T == [timer |-> timer, pending |-> pendingTimers, nextTimerId |-> nextTimerId]

\* the function debounce() returned is called for concern c:
\* clearTimeout(timer); timer = setTimeout(...)
debounced(t, c) ==
    [timer |-> [t.timer EXCEPT ![c] = t.nextTimerId],
     pending |-> (t.pending \ {[concern |-> c, id |-> t.timer[c]]})
                   \cup {[concern |-> c, id |-> t.nextTimerId]},
     nextTimerId |-> t.nextTimerId + 1]

\* what a trigger leaves for the handler to read: for the input the length
\* of the text typed (0: the input was emptied), for the resize the width
\* class, for the render pass the number of codes queued
TriggerStates == {0, 1, 2}

\* the handler of concern c runs and reads the state v: onInputChange runs
\* search() for a non-empty value; for the empty value it calls this.clear,
\* which is undefined, and throws
handlerRuns(c, v, id) ==
    [type |-> "run", concern |-> c, saw |-> v, id |-> id,
     searched |-> c = "input" /\ v # 0]

DebounceInit ==
    /\ SelectorUnused
    /\ FilterUnused
    /\ DisplayUnused
    /\ ViewUnused
    /\ LayoutUnused
    /\ DebounceUnused

\* an event of concern c (input, resize, accepted append) leaves the state v
\* and calls the debounced function
Trigger(c, v) ==
    /\ nextTimerId <= MaxTimers
    /\ concernState' = [concernState EXCEPT ![c] = v]
    /\ LET t == debounced(T, c)
       IN  /\ timer' = t.timer
           /\ pendingTimers' = t.pending
           /\ nextTimerId' = t.nextTimerId
           /\ debounceOp' = [type |-> "trigger", concern |-> c, saw |-> v,
                             id |-> timer'[c], searched |-> FALSE]
    /\ UNCHANGED <<filterVars, autofillVars, selectorVars, displayVars, searchVars,
                   viewVars, layoutVars>>

\* a pending timer fires: its callback runs the handler
TimerFires(c, id) ==
    /\ [concern |-> c, id |-> id] \in pendingTimers
    /\ pendingTimers' = pendingTimers \ {[concern |-> c, id |-> id]}
    /\ debounceOp' = handlerRuns(c, concernState[c], id)
    /\ UNCHANGED <<timer, nextTimerId, concernState, filterVars, autofillVars,
                   selectorVars, displayVars, searchVars, viewVars, layoutVars>>

DebounceNext ==
    \/ \E c \in Concerns, v \in TriggerStates : Trigger(c, v)
    \/ \E c \in Concerns, id \in 1..MaxTimers : TimerFires(c, id)

SpecDebounce == DebounceInit /\ [][DebounceNext]_vars

\* the timers of concern c that are pending
PendingOf(pending, c) == {t \in pending : t.concern = c}

\* C25: a concern has at most one pending timer; a trigger leaves its own
\* timer as the only pending one; when the timer fires the handler runs
\* once, reads the state the last trigger left, and no other execution of
\* that burst is left pending; for the input the execution is a search
C25_OneExecutionPerBurst ==
    [][ /\ \A c \in Concerns : Cardinality(PendingOf(pendingTimers', c)) <= 1
        /\ (nextTimerId' # nextTimerId) =>
              PendingOf(pendingTimers', debounceOp'.concern) =
                  {[concern |-> debounceOp'.concern, id |-> nextTimerId]}
        /\ (nextTimerId' = nextTimerId) =>
              /\ debounceOp'.type = "run"
              /\ PendingOf(pendingTimers', debounceOp'.concern) = {}
              /\ debounceOp'.id = timer[debounceOp'.concern]
              /\ debounceOp'.saw = concernState[debounceOp'.concern]
              /\ debounceOp'.concern = "input" => debounceOp'.searched
      ]_vars

\* --------------------------------- specification: the layout of a region
\* renderRegion as a function of the bucket it is given, the options of the
\* Display and the grouping mode.
\* the order in which the codes of a bucket were queued
QueueOrder == <<"te", "en", "frp", "fr">>

\* the code c queued n times
RECURSIVE Repeat(_, _)
Repeat(c, n) == IF n = 0 THEN <<>> ELSE <<c>> \o Repeat(c, n - 1)

\* the bucket that holds each code of the first k of QueueOrder cnt[code] times
RECURSIVE QueueOf(_, _)
QueueOf(cnt, k) ==
    IF k = 0 THEN <<>>
    ELSE QueueOf(cnt, k - 1) \o Repeat(QueueOrder[k], cnt[QueueOrder[k]])

\* the non-empty buckets renderRegions hands to renderRegion
LayoutQueues ==
    {QueueOf(cnt, Len(QueueOrder)) : cnt \in [Range(QueueOrder) -> 0..MaxPerCode]}
        \ {<<>>}

\* options.itemsPerColumn: undefined (0) from a Selector, else a number
LayoutItemsPerColumn == {0, 2, 8}

\* options.columns
LayoutColumns == {1, 2, 4}

Reverse(seq) == [i \in 1..Len(seq) |-> seq[Len(seq) + 1 - i]]

LayoutInit ==
    /\ SelectorUnused
    /\ FilterUnused
    /\ DisplayUnused
    /\ ViewUnused
    /\ DebounceUnused
    /\ layoutInput \in [langs : LayoutQueues, itemsPerColumn : LayoutItemsPerColumn,
                        columns : LayoutColumns, grouping : BOOLEAN]
    /\ layoutResult = NoLayoutResult

\* renderRegion(region, languages, itemsPerColumn, columnsPerRow) is called
RenderRegion ==
    /\ ~layoutResult.done
    /\ LET res == renderRegion(layoutInput.langs, layoutInput, layoutInput.grouping)
       IN  layoutResult' = [done |-> TRUE, threw |-> res.threw, rows |-> res.rows]
    /\ UNCHANGED <<layoutInput, filterVars, autofillVars, selectorVars, displayVars,
                   searchVars, viewVars, debounceVars>>

\* the same codes are queued again, in the opposite order
Requeue ==
    /\ layoutResult.done
    /\ layoutInput' = [layoutInput EXCEPT !.langs = Reverse(@)]
    /\ layoutResult' = NoLayoutResult
    /\ UNCHANGED <<filterVars, autofillVars, selectorVars, displayVars, searchVars,
                   viewVars, debounceVars>>

LayoutNext == RenderRegion \/ Requeue

SpecLayout == LayoutInit /\ [][LayoutNext]_vars

\* the columns of rendered rows, row by row
columnsOf(rows) == Flatten(rows)

\* C27: renderRegion gives the same rows and columns for the same codes in
\* whatever order they were queued; read row by row and column by column
\* the result holds every code once, sorted by autonym and then clustered
\* by script group; with one column it is one row of one column with all
\* the items
C27_LayoutDeterministicAndComplete ==
    layoutResult.done =>
        LET sorted == sortByScriptGroup(sortByAutonym(layoutInput.langs))
        IN  /\ ~layoutResult.threw
            /\ layoutResult.rows =
                   renderRegion(Reverse(layoutInput.langs), layoutInput,
                                layoutInput.grouping).rows
            /\ rowItems(layoutResult.rows) = sorted
            /\ SameCodes(rowItems(layoutResult.rows), layoutInput.langs)
            /\ layoutInput.columns = 1 => layoutResult.rows = << <<sorted>> >>

\* the number of items a column takes: options.itemsPerColumn, 8 when the
\* host configured none
columnCapacity(itemsPerColumn) == IF itemsPerColumn = 0 THEN 8 ELSE itemsPerColumn

\* C28: with more than one column, every column holds at least one and at
\* most itemsPerColumn items, every row holds at most columnsPerRow columns
\* and every row but the last exactly that many, and no item is left
\* outside the rows
C28_ColumnsAndRowsBounded ==
    (layoutResult.done /\ layoutInput.columns > 1) =>
        LET rows == layoutResult.rows
        IN  /\ ~layoutResult.threw
            /\ \A r \in 1..Len(rows) :
                  /\ Len(rows[r]) <= layoutInput.columns
                  /\ r < Len(rows) => Len(rows[r]) = layoutInput.columns
                  /\ \A c \in 1..Len(rows[r]) :
                        /\ Len(rows[r][c]) >= 1
                        /\ Len(rows[r][c]) <= columnCapacity(layoutInput.itemsPerColumn)
            /\ SameCodes(rowItems(rows), layoutInput.langs)

\* C29: with more than one column, a column before the last one holds fewer
\* than itemsPerColumn items only when grouping by region is on, the column
\* holds more than one item and the next item is of another script group
\* than the column's last item; without grouping every column before the
\* last one holds exactly itemsPerColumn items
C29_ShortColumnOnlyAtScriptBreak ==
    (layoutResult.done /\ layoutInput.columns > 1) =>
        LET cols == columnsOf(layoutResult.rows)
            ipc == layoutInput.itemsPerColumn
        IN  \A k \in 1..(Len(cols) - 1) :
              /\ (ipc # 0 /\ Len(cols[k]) < ipc) =>
                    /\ layoutInput.grouping
                    /\ Len(cols[k]) > 1
                    /\ getScriptGroupOfLanguage(cols[k][Len(cols[k])])
                         # getScriptGroupOfLanguage(cols[k + 1][1])
              /\ ~layoutInput.grouping => Len(cols[k]) = ipc

\* C29 witness: with grouping on and 8 items per column, a column before
\* the last one was closed with fewer than 8 items at a change of script
C29_Witness ==
    /\ layoutResult.done
    /\ layoutInput.columns > 1
    /\ layoutInput.grouping
    /\ layoutInput.itemsPerColumn = 8
    /\ LET cols == columnsOf(layoutResult.rows)
       IN  /\ Len(cols) > 1
           /\ Len(cols[1]) < 8

====
